---- MODULE Spec2Model ----
(***************************************************************************)
(* PocketbaseQuery (src/src/index.ts): a chainable builder that appends    *)
(* textual fragments to one buffer, and a build-time clean-up that         *)
(* rewrites the buffer with regular expressions until a pass changes       *)
(* nothing.                                                                *)
(*                                                                         *)
(* A JavaScript string is a sequence of one-character strings; every       *)
(* regular expression of cleanupQuery is an operator that scans the        *)
(* sequence the way String.prototype.replace does: leftmost match first,   *)
(* greedy quantifiers, matches of a /g expression not overlapping.         *)
(***************************************************************************)
EXTENDS Integers, Sequences, FiniteSets, TLC

\* ------------------------------------------------------------ characters

\* the regular expressions' character classes
Lower == {"a","b","c","d","e","f","g","h","i","j","k","l","m",
          "n","o","p","q","r","s","t","u","v","w","x","y","z"}
Upper == {"A","B","C","D","E","F","G","H","I","J","K","L","M",
          "N","O","P","Q","R","S","T","U","V","W","X","Y","Z"}
Digit == {"0","1","2","3","4","5","6","7","8","9"}

\* \s
IsWs(c) == c \in {" ", "\t"}
\* [a-zA-Z]
IsAlpha(c) == c \in Lower \cup Upper
\* [a-zA-Z_]
IsIdStart(c) == IsAlpha(c) \/ c = "_"
\* [a-zA-Z0-9_]
IsIdChar(c) == IsIdStart(c) \/ c \in Digit
\* [=!<>~?]
IsOpChar(c) == c \in {"=", "!", "<", ">", "~", "?"}

\* the first position from i on that holds no whitespace (\s*, greedy)
RECURSIVE SkipWs(_, _)
SkipWs(s, i) == IF i <= Len(s) /\ IsWs(s[i]) THEN SkipWs(s, i + 1) ELSE i

\* [a-zA-Z0-9_]*, greedy
RECURSIVE SkipId(_, _)
SkipId(s, i) == IF i <= Len(s) /\ IsIdChar(s[i]) THEN SkipId(s, i + 1) ELSE i

\* [=!<>~?]*, greedy
RECURSIVE SkipOp(_, _)
SkipOp(s, i) == IF i <= Len(s) /\ IsOpChar(s[i]) THEN SkipOp(s, i + 1) ELSE i

\* (&&|\|\|) at position i
ConnAt(s, i) ==
    /\ i >= 1
    /\ i + 1 <= Len(s)
    /\ \/ s[i] = "&" /\ s[i + 1] = "&"
       \/ s[i] = "|" /\ s[i + 1] = "|"

\* s from position i to its end
From(s, i) == SubSeq(s, i, Len(s))

\* String.prototype.trim
RECURSIVE TrimRight(_)
TrimRight(s) ==
    IF s # <<>> /\ IsWs(s[Len(s)]) THEN TrimRight(SubSeq(s, 1, Len(s) - 1)) ELSE s

Trim(s) == TrimRight(From(s, SkipWs(s, 1)))

\* ------------------------------------------------- cleanupQuery's rules
\* Each M<k>(s, i) is the position just after the match of rule k's
\* expression that starts at position i, or 0 when none starts there.

\* /\(\s*\)/
M1(s, i) ==
    IF s[i] = "("
    THEN LET j == SkipWs(s, i + 1)
         IN  IF j <= Len(s) /\ s[j] = ")" THEN j + 1 ELSE 0
    ELSE 0

\* result.replace(/\(\s*\)/g, '')
RECURSIVE RemoveEmptyBrackets(_, _)
RemoveEmptyBrackets(s, i) ==
    IF i > Len(s) THEN <<>>
    ELSE LET e == M1(s, i)
         IN  IF e # 0 THEN RemoveEmptyBrackets(s, e)
             ELSE <<s[i]>> \o RemoveEmptyBrackets(s, i + 1)

\* M2 without the \s* between the connective and the bracket
M2NoWs(s, i) ==
    LET j == SkipWs(s, i)
    IN  IF ConnAt(s, j) /\ j + 2 <= Len(s) /\ s[j + 2] = ")" THEN j + 3 ELSE 0

\* /\s*(&&|\|\|)\s*\)/
M2(s, i) ==
    LET j == SkipWs(s, i)
    IN  IF ConnAt(s, j)
        THEN LET k == SkipWs(s, j + 2)
             IN  IF k <= Len(s) /\ s[k] = ")" THEN k + 1 ELSE 0
        ELSE 0

\* result.replace(/\s*(&&|\|\|)\s*\)/g, ')')
RECURSIVE RemoveOpBeforeClose(_, _)
RemoveOpBeforeClose(s, i) ==
    IF i > Len(s) THEN <<>>
    ELSE LET e == M2(s, i)
         IN  IF e # 0 THEN <<")">> \o RemoveOpBeforeClose(s, e)
             ELSE <<s[i]>> \o RemoveOpBeforeClose(s, i + 1)

\* /\(\s*(&&|\|\|)\s*/
M3(s, i) ==
    IF s[i] = "("
    THEN LET j == SkipWs(s, i + 1)
         IN  IF ConnAt(s, j) THEN SkipWs(s, j + 2) ELSE 0
    ELSE 0

\* the replacement of line 463 with '' for its replacement: the "(" goes too
RECURSIVE RemoveOpAfterOpenAndOpen(_, _)
RemoveOpAfterOpenAndOpen(s, i) ==
    IF i > Len(s) THEN <<>>
    ELSE LET e == M3(s, i)
         IN  IF e # 0 THEN RemoveOpAfterOpenAndOpen(s, e)
             ELSE <<s[i]>> \o RemoveOpAfterOpenAndOpen(s, i + 1)

\* result.replace(/\(\s*(&&|\|\|)\s*/g, '(')
RECURSIVE RemoveOpAfterOpen(_, _)
RemoveOpAfterOpen(s, i) ==
    IF i > Len(s) THEN <<>>
    ELSE LET e == M3(s, i)
         IN  IF e # 0 THEN <<"(">> \o RemoveOpAfterOpen(s, e)
             ELSE <<s[i]>> \o RemoveOpAfterOpen(s, i + 1)

\* where the second connective of /\s*(&&|\|\|)\s+(&&|\|\|)\s*/ starts when
\* the expression matches at i, or 0
Second4(s, i) ==
    LET j == SkipWs(s, i)
    IN  IF ConnAt(s, j)
        THEN LET k == SkipWs(s, j + 2)
             IN  IF k > j + 2 /\ ConnAt(s, k) THEN k ELSE 0
        ELSE 0

\* CollapseDoubleOps with ' $1 ' as the replacement: the first connective kept
RECURSIVE CollapseDoubleOpsFirst(_, _)
CollapseDoubleOpsFirst(s, i) ==
    IF i > Len(s) THEN <<>>
    ELSE LET k == Second4(s, i)
         IN  IF k # 0
             THEN <<" ", s[SkipWs(s, i)], s[SkipWs(s, i) + 1], " ">>
                      \o CollapseDoubleOpsFirst(s, SkipWs(s, k + 2))
             ELSE <<s[i]>> \o CollapseDoubleOpsFirst(s, i + 1)

\* result.replace(/\s*(&&|\|\|)\s+(&&|\|\|)\s*/g, ' $2 ')
RECURSIVE CollapseDoubleOps(_, _)
CollapseDoubleOps(s, i) ==
    IF i > Len(s) THEN <<>>
    ELSE LET k == Second4(s, i)
         IN  IF k # 0
             THEN <<" ", s[k], s[k + 1], " ">>
                      \o CollapseDoubleOps(s, SkipWs(s, k + 2))
             ELSE <<s[i]>> \o CollapseDoubleOps(s, i + 1)

\* M5 for /\s*&&\s*$/, the alternative || left out
M5OnlyAnd(s, i) ==
    LET j == SkipWs(s, i)
    IN  ConnAt(s, j) /\ s[j] = "&" /\ SkipWs(s, j + 2) > Len(s)

\* /\s*(&&|\|\|)\s*$/ matches at i
M5(s, i) ==
    LET j == SkipWs(s, i)
    IN  ConnAt(s, j) /\ SkipWs(s, j + 2) > Len(s)

\* result.replace(/\s*(&&|\|\|)\s*$/, ''): the leftmost match only
RECURSIVE RemoveTrailingOp(_, _)
RemoveTrailingOp(s, i) ==
    IF i > Len(s) THEN s
    ELSE IF M5(s, i) THEN SubSeq(s, 1, i - 1)
    ELSE RemoveTrailingOp(s, i + 1)

\* result.replace(/^\s*(&&|\|\|)\s*/, '')
RemoveLeadingOp(s) ==
    LET j == SkipWs(s, 1)
    IN  IF ConnAt(s, j) THEN From(s, SkipWs(s, j + 2)) ELSE s

\* M7 for a pattern that takes an opening bracket after the ")" too
M7AlsoOpen(s, i) ==
    IF s[i] = ")" /\ i + 1 <= Len(s) /\ s[i + 1] = "("
    THEN i + 2
    ELSE IF s[i] = ")" /\ i + 1 <= Len(s) /\ IsIdStart(s[i + 1])
    THEN LET j == SkipId(s, i + 2)
             k == SkipOp(s, j)
         IN  IF k > j THEN k ELSE 0
    ELSE 0

\* /\)([a-zA-Z_][a-zA-Z0-9_]*[=!<>~?]+)/
M7(s, i) ==
    IF s[i] = ")" /\ i + 1 <= Len(s) /\ IsIdStart(s[i + 1])
    THEN LET j == SkipId(s, i + 2)
             k == SkipOp(s, j)
         IN  IF k > j THEN k ELSE 0
    ELSE 0

\* the default-and replacement with ') && ' for its replacement: the matched
\* field and operator are not put back
RECURSIVE InsertDefaultAndNoGroup(_, _)
InsertDefaultAndNoGroup(s, i) ==
    IF i > Len(s) THEN <<>>
    ELSE LET e == M7(s, i)
         IN  IF e # 0
             THEN <<")", " ", "&", "&", " ">> \o InsertDefaultAndNoGroup(s, e)
             ELSE <<s[i]>> \o InsertDefaultAndNoGroup(s, i + 1)

\* result.replace(/\)([a-zA-Z_][a-zA-Z0-9_]*[=!<>~?]+)/g, ') && $1')
RECURSIVE InsertDefaultAnd(_, _)
InsertDefaultAnd(s, i) ==
    IF i > Len(s) THEN <<>>
    ELSE LET e == M7(s, i)
         IN  IF e # 0
             THEN <<")", " ", "&", "&", " ">> \o SubSeq(s, i + 1, e - 1)
                      \o InsertDefaultAnd(s, e)
             ELSE <<s[i]>> \o InsertDefaultAnd(s, i + 1)

\* the spacing replacement with '$1 ' for its replacement: no space put before
RECURSIVE SpaceOpsAfterOnly(_, _)
SpaceOpsAfterOnly(s, i) ==
    IF i > Len(s) THEN <<>>
    ELSE LET j == SkipWs(s, i)
         IN  IF ConnAt(s, j)
             THEN <<s[j], s[j + 1], " ">> \o SpaceOpsAfterOnly(s, SkipWs(s, j + 2))
             ELSE <<s[i]>> \o SpaceOpsAfterOnly(s, i + 1)

\* result.replace(/\s*(&&|\|\|)\s*/g, ' $1 ')
RECURSIVE SpaceOps(_, _)
SpaceOps(s, i) ==
    IF i > Len(s) THEN <<>>
    ELSE LET j == SkipWs(s, i)
         IN  IF ConnAt(s, j)
             THEN <<" ", s[j], s[j + 1], " ">> \o SpaceOps(s, SkipWs(s, j + 2))
             ELSE <<s[i]>> \o SpaceOps(s, i + 1)

\* /\(\)\s*([a-zA-Z])/: the position of the letter, or 0
M10(s, i) ==
    IF s[i] = "(" /\ i + 1 <= Len(s) /\ s[i + 1] = ")"
    THEN LET j == SkipWs(s, i + 2)
         IN  IF j <= Len(s) /\ IsAlpha(s[j]) THEN j ELSE 0
    ELSE 0

\* result.replace(/\(\)\s*([a-zA-Z])/g, '$1')
RECURSIVE CleanBracketsBefore(_, _)
CleanBracketsBefore(s, i) ==
    IF i > Len(s) THEN <<>>
    ELSE LET j == M10(s, i)
         IN  IF j # 0 THEN <<s[j]>> \o CleanBracketsBefore(s, j + 1)
             ELSE <<s[i]>> \o CleanBracketsBefore(s, i + 1)

\* /([a-zA-Z\)"])\s*\(\)/
M11(s, i) ==
    IF IsAlpha(s[i]) \/ s[i] = ")" \/ s[i] = "\""
    THEN LET j == SkipWs(s, i + 1)
         IN  IF j + 1 <= Len(s) /\ s[j] = "(" /\ s[j + 1] = ")" THEN j + 2 ELSE 0
    ELSE 0

\* result.replace(/([a-zA-Z\)"])\s*\(\)/g, '$1')
RECURSIVE CleanBracketsAfter(_, _)
CleanBracketsAfter(s, i) ==
    IF i > Len(s) THEN <<>>
    ELSE LET e == M11(s, i)
         IN  IF e # 0 THEN <<s[i]>> \o CleanBracketsAfter(s, e)
             ELSE <<s[i]>> \o CleanBracketsAfter(s, i + 1)

\* result.replace(/\s+/g, ' ')
RECURSIVE CollapseWs(_, _)
CollapseWs(s, i) ==
    IF i > Len(s) THEN <<>>
    ELSE IF IsWs(s[i]) THEN <<" ">> \o CollapseWs(s, SkipWs(s, i))
    ELSE <<s[i]>> \o CollapseWs(s, i + 1)

\* the loop's body without the operator spacing replacement of line 478
cleanupPassNoSpacing(r0) ==
    LET r1  == RemoveEmptyBrackets(r0, 1)
        r2  == RemoveOpBeforeClose(r1, 1)
        r3  == RemoveOpAfterOpen(r2, 1)
        r4  == CollapseDoubleOps(r3, 1)
        r5  == RemoveTrailingOp(r4, 1)
        r6  == RemoveLeadingOp(r5)
        r7  == InsertDefaultAnd(r6, 1)
        r9  == RemoveEmptyBrackets(r7, 1)
        r10 == CleanBracketsBefore(r9, 1)
        r11 == CleanBracketsAfter(r10, 1)
    IN  Trim(CollapseWs(r11, 1))

\* one iteration of cleanupQuery's while loop
cleanupPass(r0) ==
    LET r1  == RemoveEmptyBrackets(r0, 1)
        r2  == RemoveOpBeforeClose(r1, 1)
        r3  == RemoveOpAfterOpen(r2, 1)
        r4  == CollapseDoubleOps(r3, 1)
        r5  == RemoveTrailingOp(r4, 1)
        r6  == RemoveLeadingOp(r5)
        r7  == InsertDefaultAnd(r6, 1)
        r8  == SpaceOps(r7, 1)
        r9  == RemoveEmptyBrackets(r8, 1)
        r10 == CleanBracketsBefore(r9, 1)
        r11 == CleanBracketsAfter(r10, 1)
    IN  Trim(CollapseWs(r11, 1))

\* the loop's body run once on a non-empty string, no loop
cleanupOnePass(result, prevResult) ==
    IF result = prevResult THEN result ELSE cleanupPass(result)

\* while (result !== prevResult) { prevResult = result; ... }
RECURSIVE cleanupLoop(_, _)
cleanupLoop(result, prevResult) ==
    IF result = prevResult THEN result
    ELSE cleanupLoop(cleanupPass(result), result)

\* cleanupQuery(query): prevResult starts as ''
cleanupQuery(q) == cleanupLoop(q, <<>>)

\* what build() returns for the buffer q
buildResult(q) == Trim(cleanupQuery(Trim(q)))

\* ------------------------------------------------------------- values

\* a JavaScript value passed to the builder
Null == [t |-> "null"]
Undefined == [t |-> "undefined"]
Bool(b) == [t |-> "boolean", b |-> b]
Str(s) == [t |-> "string", s |-> s]
Num(n) == [t |-> "number", n |-> n]

\* the decimal digits of a natural number
RECURSIVE Decimal(_)
Decimal(n) ==
    LET d == <<"0","1","2","3","4","5","6","7","8","9">>[(n % 10) + 1]
    IN  IF n < 10 THEN <<d>> ELSE Decimal(n \div 10) \o <<d>>

\* `${value}`: a value's text in a template literal
ToText(v) ==
    CASE v.t = "string" -> v.s
      [] v.t = "boolean" -> IF v.b THEN <<"t","r","u","e">> ELSE <<"f","a","l","s","e">>
      [] v.t = "number" -> Decimal(v.n)
      [] v.t = "null" -> <<"n","u","l","l">>
      [] v.t = "undefined" -> <<"u","n","d","e","f","i","n","e","d">>

\* value !== null && value !== undefined && value !== ''
isValidValue(value) == value # Null /\ value # Undefined /\ value # Str(<<>>)

\* OperatorEnum with LessThanOrEqual given LessThan's symbol
OperatorEnumSlip ==
    [ equal                 |-> <<"=">>,
      notEqual              |-> <<"!", "=">>,
      greaterThan           |-> <<">">>,
      greaterThanOrEqual    |-> <<">", "=">>,
      lessThan              |-> <<"<">>,
      lessThanOrEqual       |-> <<"<">>,
      like                  |-> <<"~">>,
      notLike               |-> <<"!", "~">>,
      anyEqual              |-> <<"?", "=">>,
      anyNotEqual           |-> <<"?", "!", "=">>,
      anyGreaterThan        |-> <<"?", ">">>,
      anyGreaterThanOrEqual |-> <<"?", ">", "=">>,
      anyLessThan           |-> <<"?", "<">>,
      anyLessThanOrEqual    |-> <<"?", "<", "=">>,
      anyLike               |-> <<"?", "~">>,
      anyNotLike            |-> <<"?", "!", "~">> ]

\* enum OperatorEnum, by the name of the method that uses each member
OperatorEnum ==
    [ equal                 |-> <<"=">>,
      notEqual              |-> <<"!", "=">>,
      greaterThan           |-> <<">">>,
      greaterThanOrEqual    |-> <<">", "=">>,
      lessThan              |-> <<"<">>,
      lessThanOrEqual       |-> <<"<", "=">>,
      like                  |-> <<"~">>,
      notLike               |-> <<"!", "~">>,
      anyEqual              |-> <<"?", "=">>,
      anyNotEqual           |-> <<"?", "!", "=">>,
      anyGreaterThan        |-> <<"?", ">">>,
      anyGreaterThanOrEqual |-> <<"?", ">", "=">>,
      anyLessThan           |-> <<"?", "<">>,
      anyLessThanOrEqual    |-> <<"?", "<", "=">>,
      anyLike               |-> <<"?", "~">>,
      anyNotLike            |-> <<"?", "!", "~">> ]

\* the sixteen condition-adding methods
Methods == DOMAIN OperatorEnum

\* ------------------------------------------------------------------ state

VARIABLES
    instance,        \* PocketbaseQuery.instance: 0 while undefined, else the object it refers to
    query,           \* this.query
    lastQueryValue,  \* this.lastQueryValue
    ret,             \* what the last call returned
    calls,           \* the calls made so far, oldest first
    before,          \* [query, lastQueryValue] as they were when the last call started
    result,          \* cleanupQuery's local result
    prevResult,      \* cleanupQuery's local prevResult
    pc,              \* where cleanupQuery's loop stands
    iter,            \* the iterations of the loop made so far
    callers          \* the holders of a reference: per caller its reference, calls and build() result

vars == <<instance, query, lastQueryValue, ret, calls, before, result, prevResult, pc, iter,
          callers>>

loopVars == <<result, prevResult, pc, iter>>

\* a chainable method returns the handle
This == [t |-> "this", id |-> instance]

\* addExpression with a validity test that lets the empty string through
addExpressionEmptyValid(q, l, field, operator, value) ==
    IF value.t = "boolean"
    THEN [query |-> q \o field \o operator \o ToText(value),
          lastQueryValue |-> Str(ToText(value))]
    ELSE IF value # Null /\ value # Undefined
    THEN [query |-> q \o field \o operator \o <<"\"">> \o ToText(value) \o <<"\"">>,
          lastQueryValue |-> value]
    ELSE [query |-> q, lastQueryValue |-> l]

\* addExpression that quotes strings only and leaves numbers bare
addExpressionBareNumbers(q, l, field, operator, value) ==
    IF value.t \in {"boolean", "number"}
    THEN [query |-> q \o field \o operator \o ToText(value),
          lastQueryValue |-> Str(ToText(value))]
    ELSE IF isValidValue(value)
    THEN [query |-> q \o field \o operator \o <<"\"">> \o ToText(value) \o <<"\"">>,
          lastQueryValue |-> value]
    ELSE [query |-> q, lastQueryValue |-> l]

\* the state addExpression leaves, as [query, lastQueryValue]
addExpression(q, l, field, operator, value) ==
    IF value.t = "boolean"
    THEN [query |-> q \o field \o operator \o ToText(value),
          lastQueryValue |-> Str(ToText(value))]
    ELSE IF isValidValue(value)
    THEN [query |-> q \o field \o operator \o <<"\"">> \o ToText(value) \o <<"\"">>,
          lastQueryValue |-> value]
    ELSE [query |-> q, lastQueryValue |-> l]

\* values.filter(value => value !== null && value !== undefined && value !== '')
validValues(values) == SelectSeq(values, isValidValue)

\* inForEach with or() called after every value, the last one too
RECURSIVE inForEachOrAfterAll(_, _, _, _, _)
inForEachOrAfterAll(q, l, field, vals, index) ==
    IF index > Len(vals) THEN [query |-> q, lastQueryValue |-> l]
    ELSE LET a == addExpression(q, l, field, OperatorEnum.like, vals[index])
         IN  inForEachOrAfterAll(a.query \o <<" ", "|", "|", " ">>, Str(<<>>),
                                 field, vals, index + 1)

\* validValues.forEach((value, index) => ...) from index on (1-based), as
\* [query, lastQueryValue]
RECURSIVE inForEach(_, _, _, _, _)
inForEach(q, l, field, vals, index) ==
    IF index > Len(vals) THEN [query |-> q, lastQueryValue |-> l]
    ELSE LET a == addExpression(q, l, field, OperatorEnum.like, vals[index])
         IN  IF index < Len(vals)
             THEN inForEach(a.query \o <<" ", "|", "|", " ">>, Str(<<>>),
                            field, vals, index + 1)
             ELSE a


\* ------------------------------------------------------------ operations

\* the calls of the construction under way: a build() or a getInstance()
\* ends it, and the next call starts a new one
Cur ==
    IF calls # <<>> /\ calls[Len(calls)].op \in {"build", "getInstance"}
    THEN <<>>
    ELSE calls

\* what every call on the handle shares: the new fields, the value returned
\* and the record of the call
Call(c, q, l, r) ==
    /\ instance # 0
    /\ query' = q
    /\ lastQueryValue' = l
    /\ ret' = r
    /\ calls' = Append(Cur, c)
    /\ before' = [query |-> query, lastQueryValue |-> lastQueryValue]
    /\ UNCHANGED <<instance, loopVars>>

\* getInstance that constructs an object on every call
GetInstanceAlwaysNew ==
    /\ instance' = instance + 1
    /\ query' = <<>>
    /\ lastQueryValue' = Str(<<>>)
    /\ ret' = [t |-> "this", id |-> instance']
    /\ calls' = Append(Cur, [op |-> "getInstance"])
    /\ before' = [query |-> query, lastQueryValue |-> lastQueryValue]
    /\ UNCHANGED loopVars

\* getInstance that leaves the fields of an instance that exists alone
GetInstanceNoReset ==
    /\ instance' = 1
    /\ query' = IF instance = 0 THEN <<>> ELSE query
    /\ lastQueryValue' = IF instance = 0 THEN Str(<<>>) ELSE lastQueryValue
    /\ ret' = [t |-> "this", id |-> instance']
    /\ calls' = Append(Cur, [op |-> "getInstance"])
    /\ before' = [query |-> query, lastQueryValue |-> lastQueryValue]
    /\ UNCHANGED loopVars

\* static getInstance<T>(): the type parameter is erased when the code is
\* compiled, the call has no argument. The object made by new has the id 1.
GetInstance ==
    /\ instance' = IF instance = 0 THEN 1 ELSE instance
    /\ query' = <<>>
    /\ lastQueryValue' = Str(<<>>)
    /\ ret' = [t |-> "this", id |-> instance']
    /\ calls' = Append(Cur, [op |-> "getInstance"])
    /\ before' = [query |-> query, lastQueryValue |-> lastQueryValue]
    /\ UNCHANGED loopVars

\* equal(field, value) .. anyNotLike(field, value): method is the name of the
\* method called
Cond(method, field, value) ==
    LET a == addExpression(query, lastQueryValue, field, OperatorEnum[method], value)
    IN  Call([op |-> method, field |-> field, value |-> value],
             a.query, a.lastQueryValue, This)

\* and() that appends nothing to an empty buffer
AndUnlessEmpty ==
    Call([op |-> "and"],
         IF query = <<>> THEN query ELSE query \o <<" ", "&", "&", " ">>, Str(<<>>), This)

\* and()
And == Call([op |-> "and"], query \o <<" ", "&", "&", " ">>, Str(<<>>), This)

\* or()
Or == Call([op |-> "or"], query \o <<" ", "|", "|", " ">>, Str(<<>>), This)

\* openBracket()
OpenBracket == Call([op |-> "openBracket"], query \o <<"(">>, lastQueryValue, This)

\* closeBracket()
CloseBracket == Call([op |-> "closeBracket"], query \o <<")">>, lastQueryValue, This)

\* in(field, values)
In(field, values) ==
    LET valid == validValues(values)
        a == IF valid = <<>>
             THEN [query |-> query, lastQueryValue |-> lastQueryValue]
             ELSE inForEach(query, lastQueryValue, field, valid, 1)
    IN  Call([op |-> "in", field |-> field, values |-> values],
             a.query, a.lastQueryValue, This)

\* customFilter(filter)
CustomFilter(filter) ==
    Call([op |-> "customFilter", filter |-> filter],
         IF filter = <<>> THEN query ELSE query \o filter, Str(filter), This)

\* getQuery() that cleans the buffer up and keeps the cleaned text
GetQueryCleans == Call([op |-> "getQuery"], cleanupQuery(query), lastQueryValue, Str(cleanupQuery(query)))

\* getQuery()
GetQuery == Call([op |-> "getQuery"], query, lastQueryValue, Str(query))

\* getLastQueryValue()
GetLastQueryValue ==
    Call([op |-> "getLastQueryValue"], query, lastQueryValue, lastQueryValue)

\* build() that empties this.query before it reads it
BuildResetsFirst == Call([op |-> "build"], <<>>, Str(<<>>), Str(buildResult(<<>>)))

\* build() without this.query = ""
BuildKeepsQuery == Call([op |-> "build"], query, Str(<<>>), Str(buildResult(query)))

\* build()
Build == Call([op |-> "build"], <<>>, Str(<<>>), Str(buildResult(query)))

\* --------------------------------------------------- the builder in use
\* Spec: every sequence of calls from the first getInstance() on, the
\* arguments drawn from a few values, at most MaxCalls calls between two
\* resets.

MaxCalls == 5

\* field names
FieldA == <<"a">>
FieldB == <<"b", "_", "1">>

\* the calls of Spec that add a condition
CoreConds ==
    { <<"equal", FieldA, Str(<<"v">>)>>,
      <<"like", FieldA, Str(<<>>)>> }

\* the callers there may be
Who == {"A", "B", "C"}

\* no caller holds a reference
NoCallers ==
    [c \in Who |-> [ref |-> 0, ops |-> <<>>, seen |-> Null, out |-> Null, solo |-> TRUE]]

InitBuilder ==
    /\ instance = 0
    /\ callers = NoCallers
    /\ query = <<>>
    /\ lastQueryValue = Str(<<>>)
    /\ ret = [t |-> "this", id |-> 0]
    /\ calls = <<>>
    /\ before = [query |-> <<>>, lastQueryValue |-> Str(<<>>)]
    /\ result = <<>>
    /\ prevResult = <<>>
    /\ pc = "idle"
    /\ iter = 0

Init == InitBuilder

\* a call that appends, within the bound
Append1 ==
    /\ Len(Cur) < MaxCalls
    /\ \/ \E c \in CoreConds : Cond(c[1], c[2], c[3])
       \/ And
       \/ Or
       \/ OpenBracket
       \/ CloseBracket
    /\ UNCHANGED callers

Next ==
    \/ GetInstance /\ UNCHANGED callers
    \/ Append1
    \/ Build /\ UNCHANGED callers

Spec == Init /\ [][Next]_vars


\* ------------------------------------------------- every call, once
\* SpecApi: from the first getInstance() on, at most MaxPre of Spec's
\* appending calls, then any one call of the interface with any of the
\* arguments below, then the calls that read or end the construction.

MaxPre == 1
MaxIn == 2

ApiFields == {FieldA, FieldB}

ApiValues ==
    { Null, Undefined, Str(<<>>), Bool(TRUE), Bool(FALSE), Num(50),
      Str(<<"v">>),
      Str(<<"\"", "\\">>),
      Str(<<"x", " ", " ", "y">>),
      Str(<<"(", ")">>),
      Str(<<"&", "&">>) }

\* the elements of the arrays given to in()
InValues == {Null, Undefined, Str(<<>>), Bool(FALSE), Str(<<"v">>), Str(<<"w">>)}

\* the sequences over S of at most n elements
RECURSIVE SeqsUpTo(_, _)
SeqsUpTo(S, n) ==
    IF n = 0 THEN {<<>>}
    ELSE LET P == SeqsUpTo(S, n - 1)
         IN  P \cup {Append(p, x) : p \in P, x \in S}

ApiFilters == {<<>>, <<")", "c", ">", "1">>, <<" ", "|", "|", " ">>}

\* the records of Spec's appending calls
PreCalls ==
    { [op |-> c[1], field |-> c[2], value |-> c[3]] : c \in CoreConds }
        \cup { [op |-> o] : o \in {"and", "or", "openBracket", "closeBracket"} }

\* the first construction is under way and only Spec's appending calls were
\* made in it
OnlyPre ==
    /\ calls = <<[op |-> "getInstance"]>> \/ Cur # <<>>
    /\ \A i \in 1..Len(Cur) : Cur[i] \in PreCalls

\* one of Spec's appending calls, at most MaxPre of them
Pre ==
    /\ Len(Cur) < MaxPre
    /\ OnlyPre
    /\ \/ \E c \in CoreConds : Cond(c[1], c[2], c[3])
       \/ And
       \/ Or
       \/ OpenBracket
       \/ CloseBracket
    /\ UNCHANGED callers

\* any one call that may append
Wide ==
    /\ Len(Cur) <= MaxPre
    /\ OnlyPre
    /\ \/ \E m \in Methods, f \in ApiFields, v \in ApiValues : Cond(m, f, v)
       \/ \E vs \in SeqsUpTo(InValues, MaxIn) : In(FieldA, vs)
       \/ \E t \in ApiFilters : CustomFilter(t)
    /\ UNCHANGED callers

\* a call that reads the state
Read ==
    /\ Cur # <<>>
    /\ Cur[Len(Cur)].op \notin {"getQuery", "getLastQueryValue"}
    /\ \/ GetQuery
       \/ GetLastQueryValue
    /\ UNCHANGED callers

NextApi ==
    \/ GetInstance /\ UNCHANGED callers
    \/ Pre
    \/ Wide
    \/ Read
    \/ Build /\ UNCHANGED callers

SpecApi == Init /\ [][NextApi]_vars


\* ------------------------------------------------ cleanupQuery's loop
\* SpecClean: cleanupQuery(query) run one loop iteration at a time, for every
\* string of at most MaxRaw of the characters below, and then run once more
\* on the string it returned.

MaxRaw == 5

RawChars == {"(", ")", "&", "|", " ", "a", "="}

InitClean ==
    /\ instance = 1
    /\ callers = NoCallers
    /\ query \in SeqsUpTo(RawChars, MaxRaw)
    /\ lastQueryValue = Str(<<>>)
    /\ ret = This
    /\ calls = <<[op |-> "cleanupQuery"]>>
    /\ before = [query |-> <<>>, lastQueryValue |-> Str(<<>>)]
    /\ result = query
    /\ prevResult = <<>>
    /\ pc = "loop"
    /\ iter = 0

\* LoopBody without prevResult = result
LoopBodyKeepsPrev ==
    /\ pc = "loop"
    /\ result # prevResult
    /\ result' = cleanupPass(result)
    /\ iter' = iter + 1
    /\ UNCHANGED <<instance, query, lastQueryValue, ret, calls, before, pc, prevResult, callers>>

\* while (result !== prevResult) { prevResult = result; ...the rules... }
LoopBody ==
    /\ pc = "loop"
    /\ result # prevResult
    /\ prevResult' = result
    /\ result' = cleanupPass(result)
    /\ iter' = iter + 1
    /\ UNCHANGED <<instance, query, lastQueryValue, ret, calls, before, pc, callers>>

\* LoopExit of a clean-up that applies the rules once instead of looping
LoopExitAfterOnePass ==
    /\ pc = "loop"
    /\ result = prevResult \/ prevResult # <<>>
    /\ pc' = "return"
    /\ ret' = Str(result)
    /\ UNCHANGED <<instance, query, lastQueryValue, calls, before, result, prevResult, iter,
                   callers>>

\* the loop's condition is false: return result
LoopExit ==
    /\ pc = "loop"
    /\ result = prevResult
    /\ pc' = "return"
    /\ ret' = Str(result)
    /\ UNCHANGED <<instance, query, lastQueryValue, calls, before, result, prevResult, iter,
                   callers>>

\* cleanupQuery called again, on the string it returned
Reenter ==
    /\ pc = "return"
    /\ Len(calls) = 1
    /\ query' = ret.s
    /\ result' = ret.s
    /\ prevResult' = <<>>
    /\ pc' = "loop"
    /\ iter' = 0
    /\ calls' = Append(calls, [op |-> "cleanupQuery"])
    /\ before' = [query |-> query, lastQueryValue |-> lastQueryValue]
    /\ UNCHANGED <<instance, lastQueryValue, ret, callers>>

NextClean ==
    \/ LoopBody
    \/ LoopExit
    \/ Reenter

SpecClean == InitClean /\ [][NextClean]_vars

\* ------------------------------------------- well-formed constructions
\* SpecWf: the call sequences a caller with optional values makes: terms
\* alternate with and()/or(), brackets are balanced and no group is left
\* without a term, but any condition's value may be invalid. At most MaxWf
\* calls before build().

MaxWf == 7

WfConds ==
    { <<"equal", FieldA, Str(<<"v">>)>>,
      <<"like", FieldA, Str(<<>>)>>,
      <<"notEqual", FieldA, Null>>,
      <<"equal", FieldB, Bool(TRUE)>> }

\* opening brackets not yet closed in the construction under way
RECURSIVE Depth(_)
Depth(log) ==
    IF log = <<>> THEN 0
    ELSE Depth(SubSeq(log, 1, Len(log) - 1))
           + (CASE log[Len(log)].op = "openBracket" -> 1
                [] log[Len(log)].op = "closeBracket" -> -1
                [] OTHER -> 0)

\* the next call of a well-formed sequence starts a term
ExpectTerm ==
    IF Cur = <<>> THEN TRUE
    ELSE Cur[Len(Cur)].op \in {"and", "or", "openBracket"}

WfStart == calls = <<>> /\ GetInstance /\ UNCHANGED callers

WfTerm ==
    /\ Len(Cur) < MaxWf
    /\ ExpectTerm
    /\ \/ \E c \in WfConds : Cond(c[1], c[2], c[3])
       \/ OpenBracket
    /\ UNCHANGED callers

WfConn ==
    /\ Len(Cur) < MaxWf
    /\ ~ExpectTerm
    /\ \/ And
       \/ Or
    /\ UNCHANGED callers

WfClose ==
    /\ Len(Cur) < MaxWf
    /\ ~ExpectTerm
    /\ Depth(Cur) > 0
    /\ CloseBracket
    /\ UNCHANGED callers

WfBuild ==
    /\ ~ExpectTerm
    /\ Depth(Cur) = 0
    /\ Build
    /\ UNCHANGED callers

NextWf ==
    \/ WfStart
    \/ WfTerm
    \/ WfConn
    \/ WfClose
    \/ WfBuild

SpecWf == Init /\ [][NextWf]_vars


\* ------------------------------------------- appends and reads, mixed
\* SpecMore: Spec's calls and customFilter() and getQuery(), in any order, at
\* most MaxMore calls between two resets.

MaxMore == 4

MoreCall ==
    /\ Len(Cur) < MaxMore
    /\ \/ \E c \in CoreConds : Cond(c[1], c[2], c[3])
       \/ And
       \/ Or
       \/ OpenBracket
       \/ CloseBracket
       \/ \E t \in ApiFilters : CustomFilter(t)
       \/ GetQuery
    /\ UNCHANGED callers

NextMore ==
    \/ GetInstance /\ UNCHANGED callers
    \/ MoreCall
    \/ Build /\ UNCHANGED callers

SpecMore == Init /\ [][NextMore]_vars

\* ------------------------------------------------- the README's example
\* SpecReadme: queries of the shape of the README's example, a condition,
\* and(), a condition, build(), with the example's fields and values and any
\* of the operator methods.

Status == <<"s", "t", "a", "t", "u", "s">>
Comments == <<"c", "o", "m", "m", "e", "n", "t", "s">>
Active == <<"a", "c", "t", "i", "v", "e">>

ReadmeStart == calls = <<>> /\ GetInstance /\ UNCHANGED callers

ReadmeCond ==
    /\ Len(Cur) \in {0, 2}
    /\ \E m \in Methods, f \in {Status, Comments}, v \in {Str(Active), Num(50)} :
           Cond(m, f, v)
    /\ UNCHANGED callers

ReadmeAnd == Len(Cur) = 1 /\ And /\ UNCHANGED callers

ReadmeBuild == Len(Cur) = 3 /\ Build /\ UNCHANGED callers

NextReadme ==
    \/ ReadmeStart
    \/ ReadmeCond
    \/ ReadmeAnd
    \/ ReadmeBuild

SpecReadme == Init /\ [][NextReadme]_vars

\* ------------------------------------------------- what lies between two terms
\* SpecRuns: an accepted condition, then at most MaxRun calls that add no
\* term (connectives, brackets, a skipped condition), then a second accepted
\* condition, then build().

MaxRun == 4

\* the second accepted condition has been added
RunEnded == Len(Cur) >= 2 /\ Cur[Len(Cur)].op = "equal"

RunStart == calls = <<>> /\ GetInstance /\ UNCHANGED callers

RunFirst ==
    /\ calls = <<[op |-> "getInstance"]>>
    /\ Cond("equal", FieldA, Str(<<"v">>))
    /\ UNCHANGED callers

RunItem ==
    /\ Len(Cur) \in 1..MaxRun
    /\ ~RunEnded
    /\ \/ And
       \/ Or
       \/ OpenBracket
       \/ CloseBracket
       \/ Cond("like", FieldA, Str(<<>>))
    /\ UNCHANGED callers

RunLast ==
    /\ Len(Cur) >= 1
    /\ ~RunEnded
    /\ Cond("equal", FieldB, Bool(TRUE))
    /\ UNCHANGED callers

RunBuild == RunEnded /\ Build /\ UNCHANGED callers

NextRuns ==
    \/ RunStart
    \/ RunFirst
    \/ RunItem
    \/ RunLast
    \/ RunBuild

SpecRuns == Init /\ [][NextRuns]_vars

\* ------------------------------------------------- one handle, many holders
\* SpecShared: each caller of Who builds one query: getInstance(), at most
\* MaxOps appending calls on the reference it got, getQuery() before them at
\* will, then build(). A's query is over before the others start; the calls
\* of B and C interleave in every way.

MaxOps == 1

FieldC == <<"c">>

\* the field each caller's conditions are about
FieldOf == [c \in Who |-> CASE c = "A" -> FieldA [] c = "B" -> FieldB [] OTHER -> FieldC]

\* the callers are alike: they start in this order
StartsBefore == {<<"A", "B">>, <<"B", "C">>, <<"A", "C">>}

\* c holds a reference and has not called build() yet
InFlight(c) == callers[c].ref # 0 /\ callers[c].out = Null

\* c calls getInstance() and keeps the reference. solo turns FALSE for every
\* caller whose construction another caller's calls fall into.
Acquire(c) ==
    /\ callers[c].ref = 0
    /\ \A d \in Who : <<d, c>> \in StartsBefore => callers[d].ref # 0
    /\ c = "A" \/ callers["A"].out # Null
    /\ GetInstance
    /\ callers' = [d \in Who |->
                     IF d = c
                     THEN [callers[d] EXCEPT !.ref = ret'.id,
                                             !.solo = \A e \in Who : ~InFlight(e)]
                     ELSE IF InFlight(d) THEN [callers[d] EXCEPT !.solo = FALSE]
                     ELSE callers[d]]

\* c makes an appending call on its reference
CallerAppend(c) ==
    /\ InFlight(c)
    /\ callers[c].ref = instance
    /\ Len(callers[c].ops) < MaxOps
    /\ \/ Cond("equal", FieldOf[c], Str(<<"v">>))
       \/ And
    /\ callers' = [callers EXCEPT ![c].ops = Append(@, calls'[Len(calls')])]

\* c calls getQuery() on its reference, once, before it appends anything
CallerRead(c) ==
    /\ InFlight(c)
    /\ callers[c].ref = instance
    /\ callers[c].seen = Null
    /\ callers[c].ops = <<>>
    /\ GetQuery
    /\ callers' = [callers EXCEPT ![c].seen = ret']

\* c calls build() on its reference and keeps the string
CallerBuild(c) ==
    /\ InFlight(c)
    /\ callers[c].ref = instance
    /\ Build
    /\ callers' = [callers EXCEPT ![c].out = ret']

NextShared ==
    \/ \E c \in Who : Acquire(c)
    \/ \E c \in Who : CallerAppend(c)
    \/ \E c \in Who : CallerRead(c)
    \/ \E c \in Who : CallerBuild(c)

SpecShared == Init /\ [][NextShared]_vars


\* ================================================================ claims

\* the name of the last call made, "none" before the first
LastOp == IF calls = <<>> THEN "none" ELSE calls[Len(calls)].op

\* the last call made (there is one)
LastCall == calls[Len(calls)]

\* the calls of the construction that build() just ended
Built == SubSeq(calls, 1, Len(calls) - 1)

\* C1: cleanupQuery is idempotent: run again on the string it returned, it
\* returns that string; and build() of a buffer that holds what build()
\* returned (put there by customFilter() on the reset handle) returns it again.
C1_Idempotent ==
    /\ (pc = "return" /\ Len(calls) = 2) => (result = query /\ ret = Str(query))
    /\ pc = "return" =>
           LET b == buildResult(query)
           IN  buildResult(<<>> \o b) = b

\* the second run has returned, and the first run had changed its input
C1_Witness ==
    /\ pc = "return"
    /\ Len(calls) = 2
    /\ before.query # query
    /\ query # <<>>

\* C2: the rewrite loop terminates: from every raw buffer the loop makes at
\* most one iteration more than the buffer has characters, and the string it
\* returns is one that a further pass leaves unchanged (no oscillation).
C2_Terminates ==
    /\ iter <= Len(query) + 1
    /\ pc = "return" => cleanupPass(result) = result

\* the loop has returned after more than one pass changed the string
C2_Witness ==
    /\ pc = "return"
    /\ Len(calls) = 1
    /\ iter > 2
    /\ cleanupPass(query) # result

\* a connective at the start or the end of s, next to a bracket on the
\* bracket's inside, or next to another connective, whitespace between them
\* or not
Dangling(s) ==
    \/ ConnAt(s, SkipWs(s, 1))
    \/ \E i \in 1..Len(s) :
          \/ ConnAt(s, i) /\ SkipWs(s, i + 2) > Len(s)
          \/ s[i] = "(" /\ ConnAt(s, SkipWs(s, i + 1))
          \/ ConnAt(s, i) /\ SkipWs(s, i + 2) <= Len(s) /\ s[SkipWs(s, i + 2)] = ")"
          \/ ConnAt(s, i) /\ ConnAt(s, SkipWs(s, i + 2))

\* C3: what build() returns never starts or ends with a connective, never
\* has a connective just inside a bracket and never has two connectives with
\* only whitespace between them.
C3_NoDangling == LastOp = "build" => ~Dangling(ret.s)

\* build() returned a non-empty string for a buffer with such a connective
C3_Witness ==
    /\ LastOp = "build"
    /\ Dangling(before.query)
    /\ ret.s # <<>>
    /\ \E i \in 1..Len(before.query) :
          before.query[i] = "(" /\ ConnAt(before.query, SkipWs(before.query, i + 1))


\* how often the character c occurs in s
Count(s, c) == Cardinality({i \in 1..Len(s) : s[i] = c})

\* "()" occurs in s
HasEmptyGroup(s) == \E i \in 1..Len(s) - 1 : s[i] = "(" /\ s[i + 1] = ")"

\* C4 as stated: for every sequence of builder operations, matching brackets
\* or not, what build() returns has as many "(" as ")" and no "()".
C4_Balanced ==
    LastOp = "build" => (Count(ret.s, "(") = Count(ret.s, ")") /\ ~HasEmptyGroup(ret.s))

\* the output grammar: condition := field operatorSymbol literal, where the
\* literal is a quoted string, true or false. The position after the
\* condition that starts at i, or 0.
RECURSIVE SkipToQuote(_, _)
SkipToQuote(s, i) ==
    IF i > Len(s) THEN 0
    ELSE IF s[i] = "\"" THEN i + 1
    ELSE SkipToQuote(s, i + 1)

ParseCond(s, i) ==
    IF i <= Len(s) /\ IsIdStart(s[i])
    THEN LET j == SkipId(s, i + 1)
             k == SkipOp(s, j)
         IN  IF k = j \/ k > Len(s) THEN 0
             ELSE IF s[k] = "\"" THEN SkipToQuote(s, k + 1)
             ELSE IF SubSeq(s, k, k + 3) = <<"t", "r", "u", "e">> THEN k + 4
             ELSE IF SubSeq(s, k, k + 4) = <<"f", "a", "l", "s", "e">> THEN k + 5
             ELSE 0
    ELSE 0

\* expr := term (connective term)*, term := condition | "(" expr ")": the
\* position after the longest expression (term, rest of an expression) that
\* starts at i, or 0
RECURSIVE ParseExpr(_, _)
RECURSIVE ParseTerm(_, _)
RECURSIVE ParseRest(_, _)
ParseExpr(s, i) ==
    LET t == ParseTerm(s, i)
    IN  IF t = 0 THEN 0 ELSE ParseRest(s, t)

ParseTerm(s, i) ==
    IF i > Len(s) THEN 0
    ELSE IF s[i] = "("
    THEN LET e == ParseExpr(s, i + 1)
         IN  IF e # 0 /\ e <= Len(s) /\ s[e] = ")" THEN e + 1 ELSE 0
    ELSE ParseCond(s, i)

ParseRest(s, i) ==
    LET j == SkipWs(s, i)
    IN  IF ConnAt(s, j)
        THEN LET t == ParseTerm(s, SkipWs(s, j + 2))
             IN  IF t = 0 THEN 0 ELSE ParseRest(s, t)
        ELSE i

\* s is an expression of the output grammar
IsExpr(s) == ParseExpr(s, 1) = Len(s) + 1

\* C5: for a well-formed sequence of calls, whichever of its conditions have
\* invalid values, build() returns the empty string or an expression of the
\* output grammar.
C5_ValidOutput == LastOp = "build" => (ret.s = <<>> \/ IsExpr(ret.s))

\* build() returned an expression for a sequence with a bracket group, a
\* skipped condition and an accepted one, whose raw buffer was no expression
C5_Witness ==
    /\ LastOp = "build"
    /\ ret.s # <<>>
    /\ IsExpr(ret.s)
    /\ ~IsExpr(before.query)
    /\ \E i \in 1..Len(Built) : Built[i].op = "closeBracket"
    /\ \E i \in 1..Len(Built) : Built[i].op = "like" /\ Built[i].value = Str(<<>>)

\* the operator symbols as the interface documents them: eight comparisons,
\* and the eight any-variants with "?" before the comparison's symbol
BaseSymbol ==
    [ equal |-> <<"=">>, notEqual |-> <<"!", "=">>,
      greaterThan |-> <<">">>, greaterThanOrEqual |-> <<">", "=">>,
      lessThan |-> <<"<">>, lessThanOrEqual |-> <<"<", "=">>,
      like |-> <<"~">>, notLike |-> <<"!", "~">> ]

AnyOf ==
    [ anyEqual |-> "equal", anyNotEqual |-> "notEqual",
      anyGreaterThan |-> "greaterThan", anyGreaterThanOrEqual |-> "greaterThanOrEqual",
      anyLessThan |-> "lessThan", anyLessThanOrEqual |-> "lessThanOrEqual",
      anyLike |-> "like", anyNotLike |-> "notLike" ]

SymbolOf(m) ==
    IF m \in DOMAIN BaseSymbol THEN BaseSymbol[m] ELSE <<"?">> \o BaseSymbol[AnyOf[m]]

\* a value the validity rule rejects
Invalid(v) == v \in {Null, Undefined, Str(<<>>)}

\* the text of a value that is no boolean, verbatim
ValueText(v) == IF v.t = "string" THEN v.s ELSE Decimal(v.n)

\* what a condition-adding call with these arguments is to append
ExpectedCond(m, field, v) ==
    IF v.t = "boolean"
    THEN field \o SymbolOf(m) \o (IF v.b THEN <<"t", "r", "u", "e">>
                                         ELSE <<"f", "a", "l", "s", "e">>)
    ELSE IF Invalid(v) THEN <<>>
    ELSE field \o SymbolOf(m) \o <<"\"">> \o ValueText(v) \o <<"\"">>

\* C6: a condition-adding call with a null, undefined or empty value leaves
\* the buffer as it was; one with a boolean value appends field, operator
\* symbol and the unquoted text true or false.
C6_ValidityGating ==
    LastOp \in Methods =>
        /\ Invalid(LastCall.value) => query = before.query
        /\ LastCall.value.t = "boolean" =>
               query = before.query \o LastCall.field \o SymbolOf(LastOp)
                         \o (IF LastCall.value.b THEN <<"t", "r", "u", "e">>
                                                 ELSE <<"f", "a", "l", "s", "e">>)

\* a condition with the empty string as its value was skipped on a buffer
\* that held something
C6_Witness ==
    /\ LastOp = "anyNotLike"
    /\ LastCall.value = Str(<<>>)
    /\ before.query # <<>>
    /\ query = before.query

C8_ValueKept ==
    (/\ Len(calls) = 2
     /\ LastOp = "build"
     /\ calls[1].op \in Methods
     /\ calls[1].value.t = "string"
     /\ calls[1].value.s # <<>>)
        => ret.s = calls[1].field \o SymbolOf(calls[1].op)
                     \o <<"\"">> \o calls[1].value.s \o <<"\"">>

\* the like-conditions of vals, " || " between one and the next
RECURSIVE JoinLike(_, _)
JoinLike(field, vals) ==
    IF vals = <<>> THEN <<>>
    ELSE ExpectedCond("like", field, vals[1])
           \o (IF Len(vals) > 1 THEN <<" ", "|", "|", " ">> ELSE <<>>)
           \o JoinLike(field, SubSeq(vals, 2, Len(vals)))

\* the values of an array that are not null, undefined or ''
RECURSIVE Survivors(_)
Survivors(vals) ==
    IF vals = <<>> THEN <<>>
    ELSE (IF Invalid(vals[1]) THEN <<>> ELSE <<vals[1]>>)
           \o Survivors(SubSeq(vals, 2, Len(vals)))

ExpectedFragment(c) ==
    CASE c.op \in Methods -> ExpectedCond(c.op, c.field, c.value)
      [] c.op = "and" -> <<" ", "&", "&", " ">>
      [] c.op = "or" -> <<" ", "|", "|", " ">>
      [] c.op = "openBracket" -> <<"(">>
      [] c.op = "closeBracket" -> <<")">>
      [] c.op = "in" -> JoinLike(c.field, Survivors(c.values))
      [] c.op = "customFilter" -> c.filter
      [] OTHER -> <<>>

\* the fragments of the calls of log, in call order
RECURSIVE RawOf(_)
RawOf(log) ==
    IF log = <<>> THEN <<>>
    ELSE RawOf(SubSeq(log, 1, Len(log) - 1)) \o ExpectedFragment(log[Len(log)])

\* C10: build() leaves the buffer and lastQueryValue empty whatever it
\* returns; build() with no call since the last reset returns the empty
\* string; and the buffer never holds anything but the fragments of the calls
\* made since the last reset, so a later query has nothing of an earlier one.
C10_BuildResets ==
    /\ LastOp = "build" => (query = <<>> /\ lastQueryValue = Str(<<>>))
    /\ calls = <<[op |-> "build"]>> => ret = Str(<<>>)
    /\ query = RawOf(Cur)

\* build() returned a non-empty string and left the buffer empty
C10_Witness ==
    /\ LastOp = "build"
    /\ ret.s # <<>>
    /\ before.query # <<>>
    /\ before.lastQueryValue # Str(<<>>)
    /\ query = <<>>
    /\ lastQueryValue = Str(<<>>)

\* C11: straight after getInstance() the buffer and lastQueryValue are empty,
\* whatever was done before it; and what build() returns is made of the calls
\* since the last reset alone, nothing appended before a getInstance() is in it.
C11_GetInstanceResets ==
    /\ LastOp = "getInstance" => (query = <<>> /\ lastQueryValue = Str(<<>>))
    /\ LastOp = "build" => ret = Str(buildResult(RawOf(Built)))

\* getInstance() was called on a buffer and a lastQueryValue that held something
C11_Witness ==
    /\ LastOp = "getInstance"
    /\ before.query # <<>>
    /\ before.lastQueryValue # Str(<<>>)
    /\ query = <<>>
    /\ lastQueryValue = Str(<<>>)

\* C12: there is one accumulator: getInstance() constructs an object once
\* and every call of it returns a reference to that object, every chainable
\* call returns the same reference, and getQuery() through any reference
\* returns the fragments appended through all of them since the last reset.
C12_OneAccumulator ==
    /\ instance \in {0, 1}
    /\ \A c \in Who : callers[c].ref \in {0, instance}
    /\ ret.t = "this" => ret.id = instance
    /\ LastOp = "getQuery" => (ret = Str(query) /\ query = RawOf(Built))

\* a caller that appended nothing read, through its own reference, the
\* condition another caller appended through its reference
C12_Witness ==
    /\ LastOp = "getQuery"
    /\ \E a, b \in Who :
          /\ a # b
          /\ callers[a].ref = 1
          /\ callers[b].ref = 1
          /\ callers[b].ops = <<>>
          /\ callers[b].seen = ret
          /\ callers[a].ops # <<>>
          /\ ret.s = FieldOf[a] \o <<"=", "\"", "v", "\"">>

\* C13: a query whose getInstance(), appends and build() no other query's
\* calls fall between gets from build() what its own calls produce. (That
\* interleaved queries can get something else is a reachable state, C13_Witness.)
C13_Isolation ==
    \A c \in Who :
        (callers[c].out # Null /\ callers[c].solo)
            => callers[c].out = Str(buildResult(RawOf(callers[c].ops)))

\* A ran alone and got its own condition; the calls of two other queries
\* interleaved: one got from build() the other's condition instead of its
\* own, the other got the empty string for a condition it had appended
C13_Witness ==
    /\ callers["A"].solo
    /\ callers["A"].out = Str(FieldA \o <<"=", "\"", "v", "\"">>)
    /\ \E b, c \in Who :
          /\ b # c
          /\ ~callers[b].solo
          /\ ~callers[c].solo
          /\ callers[b].ops = <<[op |-> "equal", field |-> FieldOf[b], value |-> Str(<<"v">>)]>>
          /\ callers[c].ops = <<[op |-> "equal", field |-> FieldOf[c], value |-> Str(<<"v">>)]>>
          /\ callers[b].out = Str(FieldOf[c] \o <<"=", "\"", "v", "\"">>)
          /\ callers[c].out = Str(<<>>)

\* the positions of the log at which getQuery() was called
Reads(log) == {i \in 1..Len(log) : log[i].op = "getQuery"}

\* C14: getQuery() returns the raw buffer, the fragments appended since the
\* last reset in call order and not cleaned up, and changes neither the
\* buffer nor lastQueryValue; however often it was called, build() returns
\* what the appending calls alone produce.
C14_GetQueryReadOnly ==
    /\ LastOp = "getQuery" =>
           /\ ret = Str(RawOf(Built))
           /\ query = before.query
           /\ lastQueryValue = before.lastQueryValue
    /\ LastOp = "build" =>
           ret = Str(buildResult(RawOf(SelectSeq(Built, LAMBDA c : c.op # "getQuery"))))

\* build() came after getQuery() was called twice, the second time on a
\* buffer that the clean-up changes
C14_Witness ==
    /\ LastOp = "build"
    /\ Cardinality(Reads(Built)) = 2
    /\ Built[Len(Built)].op = "getQuery"
    /\ Built[1].op # "getQuery"
    /\ before.query # ret.s
    /\ ret.s # <<>>

BalancedLog(log) ==
    /\ Depth(log) = 0
    /\ \A i \in 1..Len(log) : Depth(SubSeq(log, 1, i)) >= 0

\* no call of the log had a condition accepted
NoTermLog(log) ==
    \A i \in 1..Len(log) :
        \/ log[i].op \in {"and", "or", "openBracket", "closeBracket"}
        \/ log[i].op \in Methods /\ Invalid(log[i].value)

\* C16: a construction of and(), or(), matching brackets and skipped
\* conditions only is built to the empty string.
C16_OnlyConnectivesAndBrackets ==
    (LastOp = "build" /\ NoTermLog(Built) /\ BalancedLog(Built)) => ret = Str(<<>>)

\* build() returned the empty string for a connective in two nested groups
C16_Witness ==
    /\ LastOp = "build"
    /\ Len(Built) = 5
    /\ Built[1].op = "openBracket"
    /\ Built[2].op = "openBracket"
    /\ Built[3].op = "and"
    /\ Built[4].op = "closeBracket"
    /\ Built[5].op = "closeBracket"
    /\ before.query = <<"(", "(", " ", "&", "&", " ", ")", ")">>
    /\ ret = Str(<<>>)

\* the calls of the README's example before build()
ReadmeCalls ==
    << [op |-> "equal", field |-> Status, value |-> Str(Active)],
       [op |-> "and"],
       [op |-> "greaterThan", field |-> Comments, value |-> Num(50)] >>

Between == SubSeq(Built, 2, Len(Built) - 1)

\* the last connective of the log that is in no bracket group, "none" if
\* there is none
RECURSIVE LastTopConn(_)
LastTopConn(log) ==
    IF log = <<>> THEN "none"
    ELSE LET pre == SubSeq(log, 1, Len(log) - 1)
         IN  IF log[Len(log)].op \in {"and", "or"} /\ Depth(pre) = 0
             THEN log[Len(log)].op
             ELSE LastTopConn(pre)

\* the calls of the log that appended something
Appended(log) == SelectSeq(log, LAMBDA c : c.op \notin Methods \/ ~Invalid(c.value))

C19_IdentityOnClean ==
    (/\ LastOp = "build"
     /\ Len(Built) >= 2
     /\ Built[Len(Built)].op = "getQuery"
     /\ IsExpr(before.query))
        => ret.s = before.query

\* the same for constructions whose values hold no whitespace, bracket or
\* connective character
C19_PlainValues ==
    (LastOp = "build" /\ IsExpr(before.query)) => ret.s = before.query

\* the log holds accepted conditions and brackets only, and no
\* openBracket() directly followed by closeBracket()
TermsAndBrackets(log) ==
    /\ \A i \in 1..Len(log) :
          \/ log[i].op \in {"openBracket", "closeBracket"}
          \/ log[i].op \in Methods /\ ~Invalid(log[i].value)
    /\ \A i \in 1..Len(log) - 1 :
          ~(log[i].op = "openBracket" /\ log[i + 1].op = "closeBracket")

\* the fragments of the log with " && " put in wherever a condition comes
\* directly after a closeBracket()
RECURSIVE WithDefaultAnd(_)
WithDefaultAnd(log) ==
    IF log = <<>> THEN <<>>
    ELSE LET pre == SubSeq(log, 1, Len(log) - 1)
             c == log[Len(log)]
         IN  WithDefaultAnd(pre)
               \o (IF pre # <<>> /\ pre[Len(pre)].op = "closeBracket" /\ c.op \in Methods
                   THEN <<" ", "&", "&", " ">> ELSE <<>>)
               \o ExpectedFragment(c)

Reflects(v) ==
    IF v.t = "boolean"
    THEN Str(IF v.b THEN <<"t", "r", "u", "e">> ELSE <<"f", "a", "l", "s", "e">>)
    ELSE v

\* C21 as stated: after every condition-adding call lastQueryValue is the
\* value of that call, also when the value is null, undefined or '' and
\* nothing was appended.
C21_LastValueAlways == LastOp \in Methods => lastQueryValue = Reflects(LastCall.value)

\* what the code does: an accepted value is kept, a skipped one leaves
\* lastQueryValue as it was
C21_LastValueOfAccepted ==
    LastOp \in Methods =>
        lastQueryValue = (IF Invalid(LastCall.value) THEN before.lastQueryValue
                          ELSE Reflects(LastCall.value))

\* one pass of the eight ordered rules of the buffer normalizer as the
\* specification lists them: empty groups, connective before ")", connective
\* after "(", two adjacent connectives, connective at the start, connective at
\* the end, default "and" after ")", connective spacing and whitespace runs
SpecPass(r0) ==
    LET r1 == RemoveEmptyBrackets(r0, 1)
        r2 == RemoveOpBeforeClose(r1, 1)
        r3 == RemoveOpAfterOpen(r2, 1)
        r4 == CollapseDoubleOps(r3, 1)
        r5 == RemoveLeadingOp(r4)
        r6 == RemoveTrailingOp(r5, 1)
        r7 == InsertDefaultAnd(r6, 1)
        r8 == SpaceOps(r7, 1)
    IN  CollapseWs(r8, 1)

\* the passes repeated until one of them changes nothing
RECURSIVE SpecFixedPoint(_)
SpecFixedPoint(r) ==
    LET n == SpecPass(r) IN IF n = r THEN r ELSE SpecFixedPoint(n)

\* the fixed point, trimmed once
SpecNormalize(q) == Trim(SpecFixedPoint(q))

Spaced(s) ==
    /\ s = Trim(s)
    /\ \A i \in 1..(Len(s) - 1) : ~(IsWs(s[i]) /\ IsWs(s[i + 1]))
    /\ \A i \in 1..(Len(s) - 1) :
          ConnAt(s, i) =>
              /\ i > 1
              /\ s[i - 1] = " "
              /\ i + 2 <= Len(s)
              /\ s[i + 2] = " "

\* C23: in every string returned by build() each connective has exactly one
\* space on each side, no two whitespace characters follow each other, and
\* the string neither starts nor ends with whitespace
C23_Spacing ==
    /\ pc = "return" => (Spaced(buildResult(query)) /\ Spaced(Trim(result)))
    /\ LastOp = "build" => Spaced(ret.s)

\* a raw string that is not spaced that way and whose result keeps a
\* connective
C23_Witness ==
    /\ pc = "return"
    /\ Len(calls) = 1
    /\ ~Spaced(query)
    /\ \E i \in 1..Len(query) : ConnAt(query, i) /\ (i = 1 \/ query[i - 1] # " ")
    /\ \E i \in 1..Len(result) : ConnAt(result, i)
    /\ result = buildResult(query)

\* s without its parentheses, connective characters and whitespace
RECURSIVE ConditionText(_)
ConditionText(s) ==
    IF s = <<>> THEN <<>>
    ELSE (IF s[1] \in {"(", ")", "&", "|"} \/ IsWs(s[1]) THEN <<>> ELSE <<s[1]>>)
           \o ConditionText(From(s, 2))

\* v has no parenthesis, connective character or whitespace in it
PlainValue(v) == v.t = "string" => ConditionText(v.s) = v.s

\* the calls of the log are and(), or(), brackets, and conditions and in()
\* whose values are plain
PlainLog(log) ==
    \A i \in 1..Len(log) :
        \/ log[i].op \in {"and", "or", "openBracket", "closeBracket"}
        \/ log[i].op \in Methods /\ PlainValue(log[i].value)
        \/ log[i].op = "in" /\ \A k \in 1..Len(log[i].values) : PlainValue(log[i].values[k])

\* the accepted conditions of the log, in call order, one after the other
RECURSIVE AcceptedConds(_)
AcceptedConds(log) ==
    IF log = <<>> THEN <<>>
    ELSE AcceptedConds(SubSeq(log, 1, Len(log) - 1))
           \o (LET c == log[Len(log)]
               IN  IF c.op \in Methods THEN ExpectedCond(c.op, c.field, c.value)
                   ELSE IF c.op = "in"
                   THEN ConditionText(JoinLike(c.field, Survivors(c.values)))
                   ELSE <<>>)

Excess(s) == Count(s, "(") - Count(s, ")")

\* every ")" of s closes a "(" before it and no "(" is left open
RECURSIVE Nested(_, _)
Nested(s, d) ==
    IF s = <<>> THEN d = 0
    ELSE IF s[1] = "(" THEN Nested(From(s, 2), d + 1)
    ELSE IF s[1] = ")" THEN d > 0 /\ Nested(From(s, 2), d - 1)
    ELSE Nested(From(s, 2), d)

\* s without its whitespace and connective characters
RECURSIVE Kernel(_)
Kernel(s) ==
    IF s = <<>> THEN <<>>
    ELSE (IF s[1] \in {"&", "|"} \/ IsWs(s[1]) THEN <<>> ELSE <<s[1]>>)
           \o Kernel(From(s, 2))

\* acc followed by s, every "(" directly followed by ")" taken out with it,
\* again and again
RECURSIVE DropPairs(_, _)
DropPairs(acc, s) ==
    IF s = <<>> THEN acc
    ELSE IF s[1] = ")" /\ acc # <<>> /\ acc[Len(acc)] = "("
    THEN DropPairs(SubSeq(acc, 1, Len(acc) - 1), From(s, 2))
    ELSE DropPairs(Append(acc, s[1]), From(s, 2))

\* raw is made into out with no parenthesis put in, with none taken out but a
\* "(" and the ")" that follows it with connectives and spaces at most
\* between them, and with the unmatched ones where they were
PairsOnly(raw, out) ==
    /\ Excess(out) = Excess(raw)
    /\ Count(out, "(") <= Count(raw, "(")
    /\ Count(out, ")") <= Count(raw, ")")
    /\ DropPairs(<<>>, Kernel(out)) = DropPairs(<<>>, Kernel(raw))
    /\ Nested(raw, 0) => Nested(out, 0)

\* C25: parentheses are removed only as adjacent matched pairs and never
\* inserted: for every raw buffer the number of "(" minus the number of ")"
\* is the same in what build() returns as in the raw buffer, a balanced raw
\* buffer gives a balanced, properly nested string, and an unmatched
\* parenthesis is neither removed nor matched
C25_BracketPairs ==
    /\ pc = "return" => (PairsOnly(query, result) /\ PairsOnly(query, buildResult(query)))
    /\ LastOp = "build" =>
           /\ PairsOnly(before.query, ret.s)
           /\ (BalancedLog(Built) /\ PlainLog(Built)) => Nested(ret.s, 0)

\* a raw string with an unmatched parenthesis and a pair that was removed
C25_Witness ==
    /\ pc = "return"
    /\ Len(calls) = 1
    /\ Excess(query) # 0
    /\ Count(result, "(") + Count(result, ")") > 0
    /\ Count(result, "(") < Count(query, "(")
    /\ Count(result, ")") < Count(query, ")")

====
